---- MODULE Spec2Model ----
(***************************************************************************)
(* A model of the discharge-summary web application in src/main.py: the   *)
(* upload handler (home), the model-call client with its retry loop       *)
(* (get_json_from_pdf_via_gemini) and the review handler (review) that    *)
(* merges the stored record with the submitted form, validates it,        *)
(* formats the dates and builds the template context.                     *)
(*                                                                         *)
(* Python strings are sequences of one-character strings, so that strip,  *)
(* upper, title, splitlines, join, substring search and strptime/strftime *)
(* are computed and not assumed.                                          *)
(***************************************************************************)
EXTENDS Integers, Sequences, FiniteSets, TLC

(***************************************************************************)
(* Python str operations                                                   *)
(***************************************************************************)
Lower == <<"a", "b", "c", "d", "e", "f", "g", "h", "i", "j", "k", "l", "m",
           "n", "o", "p", "q", "r", "s", "t", "u", "v", "w", "x", "y", "z">>

Upper == <<"A", "B", "C", "D", "E", "F", "G", "H", "I", "J", "K", "L", "M",
           "N", "O", "P", "Q", "R", "S", "T", "U", "V", "W", "X", "Y", "Z">>

Digits == <<"0", "1", "2", "3", "4", "5", "6", "7", "8", "9">>

\* The characters str.strip() removes, among those the inputs use.
Whitespace == {" ", "\n", "\t"}

SetMin(S) == CHOOSE x \in S : \A y \in S : x <= y

SetMax(S) == CHOOSE x \in S : \A y \in S : x >= y

IndexIn(alphabet, c) == CHOOSE i \in 1..Len(alphabet) : alphabet[i] = c

IsIn(alphabet, c) == \E i \in 1..Len(alphabet) : alphabet[i] = c

UpperChar(c) == IF IsIn(Lower, c) THEN Upper[IndexIn(Lower, c)] ELSE c

LowerChar(c) == IF IsIn(Upper, c) THEN Lower[IndexIn(Upper, c)] ELSE c

IsLetter(c) == IsIn(Lower, c) \/ IsIn(Upper, c)

\* s.upper()
str_upper(s) == [i \in 1..Len(s) |-> UpperChar(s[i])]

\* s.title(): a letter that follows a non-letter is upper-cased, the others
\* are lower-cased.
str_title(s) ==
  [i \in 1..Len(s) |->
     IF i = 1 \/ ~IsLetter(s[i - 1]) THEN UpperChar(s[i]) ELSE LowerChar(s[i])]

\* s.strip()
str_strip(s) ==
  LET keep == {i \in 1..Len(s) : s[i] \notin Whitespace}
  IN  IF keep = {} THEN <<>> ELSE SubSeq(s, SetMin(keep), SetMax(keep))

\* s.splitlines()
RECURSIVE str_splitlines(_)
str_splitlines(s) ==
  IF s = <<>> THEN <<>>
  ELSE LET nl == {i \in 1..Len(s) : s[i] = "\n"}
       IN  IF nl = {} THEN <<s>>
           ELSE <<SubSeq(s, 1, SetMin(nl) - 1)>>
                  \o str_splitlines(SubSeq(s, SetMin(nl) + 1, Len(s)))

\* "\n".join(lines)
RECURSIVE str_join(_)
str_join(lines) ==
  IF lines = <<>> THEN <<>>
  ELSE IF Len(lines) = 1 THEN lines[1]
  ELSE lines[1] \o <<"\n">> \o str_join(Tail(lines))

\* needle in hay
str_contains(needle, hay) ==
  \E i \in 0..(Len(hay) - Len(needle)) :
     SubSeq(hay, i + 1, i + Len(needle)) = needle

\* list(dict.fromkeys(items)): the first occurrence of each value, in order.
dict_fromkeys(items) ==
  LET first == {i \in 1..Len(items) : \A j \in 1..(i - 1) : items[j] # items[i]}
      RECURSIVE pick(_)
      pick(i) == IF i > Len(items) THEN <<>>
                 ELSE IF i \in first THEN <<items[i]>> \o pick(i + 1)
                 ELSE pick(i + 1)
  IN  pick(1)

(***************************************************************************)
(* datetime.strptime(s, "%Y-%m-%d").strftime("%d-%b-%Y")                   *)
(***************************************************************************)
MonthAbbr == << <<"J", "a", "n">>, <<"F", "e", "b">>, <<"M", "a", "r">>,
                <<"A", "p", "r">>, <<"M", "a", "y">>, <<"J", "u", "n">>,
                <<"J", "u", "l">>, <<"A", "u", "g">>, <<"S", "e", "p">>,
                <<"O", "c", "t">>, <<"N", "o", "v">>, <<"D", "e", "c">> >>

IsDigit(c) == IsIn(Digits, c)

DigitVal(c) == IndexIn(Digits, c) - 1

IsLeap(y) == (y % 4 = 0 /\ y % 100 # 0) \/ y % 400 = 0

DaysInMonth(y, m) ==
  IF m = 2 THEN (IF IsLeap(y) THEN 29 ELSE 28)
  ELSE IF m \in {4, 6, 9, 11} THEN 30 ELSE 31

\* The number of characters the directive %m takes at position p:
\* 1[0-2] | 0[1-9] | [1-9], in this order; 0 when none matches.
MonthWidth(s, p) ==
  IF p + 1 <= Len(s) /\ s[p] = "1" /\ s[p + 1] \in {"0", "1", "2"} THEN 2
  ELSE IF p + 1 <= Len(s) /\ s[p] = "0" /\ IsDigit(s[p + 1]) /\ s[p + 1] # "0" THEN 2
  ELSE IF p <= Len(s) /\ IsDigit(s[p]) /\ s[p] # "0" THEN 1
  ELSE 0

\* The number of characters the directive %d takes at position p:
\* 3[01] | [12]\d | 0[1-9] | [1-9] | " "[1-9], in this order.
DayWidth(s, p) ==
  IF p + 1 <= Len(s) /\ s[p] = "3" /\ s[p + 1] \in {"0", "1"} THEN 2
  ELSE IF p + 1 <= Len(s) /\ s[p] \in {"1", "2"} /\ IsDigit(s[p + 1]) THEN 2
  ELSE IF p + 1 <= Len(s) /\ s[p] = "0" /\ IsDigit(s[p + 1]) /\ s[p + 1] # "0" THEN 2
  ELSE IF p <= Len(s) /\ IsDigit(s[p]) /\ s[p] # "0" THEN 1
  ELSE IF p + 1 <= Len(s) /\ s[p] = " " /\ IsDigit(s[p + 1]) /\ s[p + 1] # "0" THEN 2
  ELSE 0

\* The value of the digits of s at positions p..q (a leading space counts 0).
RECURSIVE NumAt(_, _, _)
NumAt(s, p, q) ==
  IF p > q THEN 0
  ELSE 10 * NumAt(s, p, q - 1) + (IF IsDigit(s[q]) THEN DigitVal(s[q]) ELSE 0)

\* datetime.strptime(s, "%Y-%m-%d"): ok is FALSE where Python raises
\* ValueError (no match, unconverted data, day out of range for the month).
strptime(s) ==
  LET bad    == [ok |-> FALSE, y |-> 0, m |-> 0, d |-> 0]
      yearOK == Len(s) >= 5 /\ (\A i \in 1..4 : IsDigit(s[i])) /\ s[5] = "-"
      mw     == MonthWidth(s, 6)
      dp     == 6 + mw + 1
      dw     == DayWidth(s, dp)
  IN  IF ~yearOK \/ mw = 0 THEN bad
      ELSE IF ~(dp - 1 <= Len(s) /\ s[dp - 1] = "-") \/ dw = 0 THEN bad
      ELSE IF dp + dw - 1 # Len(s) THEN bad
      ELSE LET y == NumAt(s, 1, 4)
               m == NumAt(s, 6, 6 + mw - 1)
               d == NumAt(s, dp, dp + dw - 1)
           IN  IF y < 1 \/ d > DaysInMonth(y, m) THEN bad
               ELSE [ok |-> TRUE, y |-> y, m |-> m, d |-> d]

\* date.strftime("%d-%b-%Y"), for the four-digit years strptime yields.
strftime(t) ==
  <<Digits[(t.d \div 10) + 1], Digits[(t.d % 10) + 1], "-">>
    \o MonthAbbr[t.m] \o
  <<"-", Digits[(t.y \div 1000) + 1], Digits[((t.y \div 100) % 10) + 1],
         Digits[((t.y \div 10) % 10) + 1], Digits[(t.y % 10) + 1]>>

(***************************************************************************)
(* JSON values of the stored record and of the form                        *)
(*                                                                         *)
(* A scalar is a string, None (JSON null) or Absent (the key is missing).  *)
(* The two markers are one-element sequences holding a word no character   *)
(* equals, so that they differ from every string.                          *)
(***************************************************************************)
None == <<"None">>

Absent == <<"Absent">>

NA == <<"N", "/", "A">>

ADVICE == <<"A", "D", "V", "I", "C", "E", ":", " ", "M", "E", "D", "I", "C",
            "A", "L", " ", "M", "A", "N", "A", "G", "E", "M", "E", "N", "T">>

PDF == <<"p", "d", "f">>

IdentityKeys == {"umr", "name", "age/gender", "ad1", "ad2", "mob",
                 "admision_number", "ward", "admission_date", "discharge_date"}

ScalarKeys == IdentityKeys \cup {"ChiefComplaints"}

ListKeys == {"Diagnosis", "Riskfactors", "PastHistory", "Course"}

VitalKeys == {"TEMP", "PR", "BP", "SPo2", "RR"}

ExamKeys == {"CVS", "RS", "CNS", "PA"}

MedKeys == {"form", "name", "dosage", "freq", "time"}

\* The keys request.form is read under, the medication slots aside.
FormKeys == ListKeys \cup {"ChiefComplaints"} \cup VitalKeys \cup ExamKeys
              \cup IdentityKeys

\* range(1, 12): one slot too many.
MedSlotsOneMore == 1..11

\* range(1, 11): the medication slots of the review form.
MedSlots == 1..10

\* Python truthiness of a scalar: None and "" are falsy.
Truthy(v) == v # None /\ v # Absent /\ v # <<>>

\* d.get(key, default) for the value v stored under key.
dict_get(v, default) == IF v = Absent THEN default ELSE v

\* a or b
py_or(a, b) == IF Truthy(a) THEN a ELSE b

\* The empty dict: every key missing.
EmptyRecord ==
  [scalars     |-> [k \in ScalarKeys |-> Absent],
   lists       |-> [k \in ListKeys |-> [kind |-> "absent", items |-> <<>>]],
   Vitals      |-> [kind |-> "absent", map |-> [k \in VitalKeys |-> Absent]],
   Examination |-> [kind |-> "absent", map |-> [k \in ExamKeys |-> Absent]],
   Medications |-> [kind |-> "absent", items |-> <<>>]]

\* A form that carries no key.
EmptyForm ==
  [fields |-> [k \in FormKeys |-> Absent],
   slots  |-> [i \in MedSlots |-> [k \in MedKeys |-> Absent]]]

(***************************************************************************)
(* The helper functions of main.py                                         *)
(***************************************************************************)
\* allowed_file(filename): rsplit('.', 1)[1].lower() in ALLOWED_EXTENSIONS
allowed_file(filename) ==
  LET dots == {i \in 1..Len(filename) : filename[i] = "."}
  IN  /\ dots # {}
      /\ LET ext == SubSeq(filename, SetMax(dots) + 1, Len(filename))
         IN  [i \in 1..Len(ext) |-> LowerChar(ext[i])] = PDF

\* format_multiline_field(content), content a list-field value
\* [kind, items]: ok is FALSE where "\n".join raises TypeError (an item that
\* is no string).
format_multiline_field(content) ==
  IF content.kind \in {"absent", "none"} THEN [ok |-> TRUE, v |-> <<>>]
  ELSE IF content.kind = "str" THEN [ok |-> TRUE, v |-> content.items[1]]
  ELSE IF content.items = <<>> THEN [ok |-> TRUE, v |-> <<>>]
  ELSE IF \E i \in 1..Len(content.items) : content.items[i] = None
       THEN [ok |-> FALSE, v |-> <<>>]
  ELSE [ok |-> TRUE, v |-> str_join(content.items)]

\* parse_multiline(text), text a string
parse_multiline(text) ==
  LET lines == str_splitlines(text)
      RECURSIVE keep(_)
      keep(i) == IF i > Len(lines) THEN <<>>
                 ELSE IF str_strip(lines[i]) # <<>>
                      THEN <<str_strip(lines[i])>> \o keep(i + 1)
                 ELSE keep(i + 1)
  IN  keep(1)

required_fields == <<"name", "age/gender", "admission_date", "discharge_date">>

\* validate_json_data(data): the first required field that is missing or
\* falsy, as an index into required_fields; 0 when the record is valid.
validate_json_data(data) ==
  LET missing == {i \in 1..Len(required_fields) :
                    ~Truthy(data.scalars[required_fields[i]])}
  IN  IF missing = {} THEN 0 ELSE SetMin(missing)

(***************************************************************************)
(* review, POST: the merge of the stored record with the form              *)
(***************************************************************************)
\* request.form.get(key, default)
form_get(form, key, default) ==
  IF form.fields[key] = Absent THEN default ELSE form.fields[key]

\* The merge raises before its try block: data.get("Vitals", {}).get(...)
\* where Vitals (or Examination) is present and no dict, or "\n".join over a
\* list field that holds an item that is no string. The defaults are
\* evaluated whatever the form carries.
merge_raises(data) ==
  \/ data.Vitals.kind \in {"none", "str"}
  \/ data.Examination.kind \in {"none", "str"}
  \/ \E k \in ListKeys : ~format_multiline_field(data.lists[k]).ok

\* The advisory looked for without upper-casing the entries.
ensure_advice_case_sensitive(diagnosis) ==
  LET d == dict_fromkeys(diagnosis)
  IN  IF \E i \in 1..Len(d) : str_contains(ADVICE, d[i])
      THEN d ELSE Append(d, ADVICE)

\* Lines 219-226: deduplicate, then append the advisory when no entry
\* contains it in upper case.
ensure_advice(diagnosis) ==
  LET d == dict_fromkeys(diagnosis)
  IN  IF \E i \in 1..Len(d) : str_contains(ADVICE, str_upper(d[i]))
      THEN d ELSE Append(d, ADVICE)

\* request.form.get(f"...{i}", "") of one slot
slot_get(slot, key) == IF slot[key] = Absent THEN <<>> ELSE slot[key]

\* Lines 234-238: the five values of slot i, trimmed, the form upper-cased.
slot_values(slot) ==
  [form   |-> str_upper(str_strip(py_or(slot_get(slot, "form"), <<>>))),
   name   |-> str_strip(slot_get(slot, "name")),
   dosage |-> str_strip(slot_get(slot, "dosage")),
   freq   |-> str_strip(slot_get(slot, "freq")),
   time   |-> str_strip(slot_get(slot, "time"))]

\* Line 239: any([form_val, name_val, dosage, freq, time_val])
slot_filled(slot) == \E k \in MedKeys : slot_values(slot)[k] # <<>>

\* A row whose blank form and name default to "N/A" like the other three.
medication_row_all_na(slot) ==
  LET v == slot_values(slot)
  IN  [isdict |-> TRUE,
       f |-> [k \in MedKeys |-> py_or(v[k], NA)]]

\* Lines 240-246: the row appended for a filled slot.
medication_row(slot) ==
  LET v == slot_values(slot)
  IN  [isdict |-> TRUE,
       f |-> [form   |-> py_or(v.form, <<>>),
              name   |-> py_or(v.name, <<>>),
              dosage |-> py_or(v.dosage, NA),
              freq   |-> py_or(v.freq, NA),
              time   |-> py_or(v.time, NA)]]

\* Lines 233-246: the rows of the filled slots appended in slot order.
RECURSIVE collect_from(_, _, _)
collect_from(meds, form, i) ==
  IF i \notin MedSlots THEN meds
  ELSE collect_from(IF slot_filled(form.slots[i])
                    THEN Append(meds, medication_row(form.slots[i]))
                    ELSE meds,
                    form, i + 1)

collect_medications(meds, form) == collect_from(meds, form, 1)

\* Lines 215-217 and 229-230: Medications starts as the stored list itself
\* when the stored value is a list, and as a new empty list otherwise.
initial_medications(data) ==
  IF data.Medications.kind = "list" THEN data.Medications.items ELSE <<>>

\* A merge that reads the identity fields from the form like the medical
\* ones.
merge_identity_from_form(data, form, k) ==
  form_get(form, k, dict_get(data.scalars[k], NA))

\* Lines 184-193: the identity fields of edited.
merge_identity(data, form, k) == dict_get(data.scalars[k], NA)

\* Lines 197-211: a scalar the form may replace.
merge_scalar(form, k, stored) == form_get(form, k, dict_get(stored, NA))

\* Lines 182-246: edited, for a record the merge does not raise on.
review_merge(data, form) ==
  [scalars |->
     [k \in ScalarKeys |->
        IF k \in IdentityKeys THEN merge_identity(data, form, k)
        ELSE merge_scalar(form, k, data.scalars[k])],
   lists |->
     [k \in ListKeys |->
        LET parsed ==
              parse_multiline(
                form_get(form, k, format_multiline_field(data.lists[k]).v))
        IN  [kind  |-> "list",
             items |-> IF k = "Diagnosis" THEN ensure_advice(parsed) ELSE parsed]],
   Vitals |->
     [kind |-> "dict",
      map  |-> [k \in VitalKeys |-> merge_scalar(form, k, data.Vitals.map[k])]],
   Examination |->
     [kind |-> "dict",
      map  |-> [k \in ExamKeys |-> merge_scalar(form, k, data.Examination.map[k])]],
   Medications |->
     [kind  |-> "list",
      items |-> collect_medications(initial_medications(data), form)]]

\* edited["Medications"] is the stored list object when the stored value is
\* a list: the rows appended to it are appended to session['json_data'].
stored_after_merge(data, form) ==
  IF data.Medications.kind = "list"
  THEN [data EXCEPT !.Medications.items = review_merge(data, form).Medications.items]
  ELSE data

(***************************************************************************)
(* review, POST: dates, template context                                   *)
(***************************************************************************)
\* Lines 253-261: both dates are formatted inside one try block, so a
\* ValueError on the admission date skips the discharge date too.
format_dates(edited) ==
  LET a  == edited.scalars["admission_date"]
      d  == edited.scalars["discharge_date"]
      ta == strptime(a)
      td == strptime(d)
  IN  IF Truthy(a) /\ ~ta.ok THEN [admit |-> a, discharge |-> d]
      ELSE LET a2 == IF Truthy(a) THEN strftime(ta) ELSE a
           IN  IF Truthy(d) /\ ~td.ok THEN [admit |-> a2, discharge |-> d]
               ELSE [admit |-> a2,
                     discharge |-> IF Truthy(d) THEN strftime(td) ELSE d]

\* The value the system clock gives; the model does not read its digits.
Clock == <<"now">>

BaseContextKeys ==
  {"umr", "name", "age", "ad1", "ad2", "mob", "admision", "ward", "admit",
   "discharge", "Diagnosis", "ChiefComplaints", "Riskfactors", "Course",
   "current_date", "current_time"} \cup VitalKeys \cup ExamKeys

AliasKeys ==
  {"UMR", "NAME", "AGE_GENDER", "AD1", "AD2", "MOB", "WARD_NAME", "ADMISSION",
   "DISCHARGE", "ADMISSION_DATE", "DISCHARGE_DATE", "ADMISSION_NUMBER",
   "ADMISSION_NO", "SPO2"}

\* Lines 303-325: the key each alias copies.
alias_of(k) ==
  CASE k = "UMR" -> "umr"
    [] k = "NAME" -> "name"
    [] k = "AD1" -> "ad1"
    [] k = "AD2" -> "ad2"
    [] k = "MOB" -> "mob"
    [] k = "WARD_NAME" -> "ward"
    [] k \in {"ADMISSION", "ADMISSION_DATE"} -> "admit"
    [] k \in {"DISCHARGE", "DISCHARGE_DATE"} -> "discharge"
    [] k \in {"ADMISSION_NUMBER", "ADMISSION_NO"} -> "admision"
    [] k = "SPO2" -> "SPo2"
    [] OTHER -> "age"

\* Lines 276-282 and 331-340 call str methods on values that may be None,
\* and .get on medication entries that may be no dict: AttributeError.
context_raises(edited) ==
  \/ \E k \in {"name", "ad1", "ad2", "ward"} : edited.scalars[k] = None
  \/ \E i \in 1..Len(edited.Medications.items) :
        /\ i <= 10
        /\ LET med == edited.Medications.items[i]
           IN  \/ ~med.isdict
               \/ med.f["form"] = None
               \/ med.f["name"] = None

\* Lines 332-340: the four placeholders of slot i (1-based).
medication_placeholders(meds, i) ==
  LET f == IF i <= Len(meds) THEN meds[i].f ELSE [k \in MedKeys |-> Absent]
      form_val == str_strip(dict_get(f["form"], <<>>))
      name_val == str_strip(dict_get(f["name"], <<>>))
  IN  [TAB    |-> IF form_val # <<>> \/ name_val # <<>>
                  THEN str_strip(form_val \o <<" ">> \o name_val) ELSE <<>>,
       DOSAGE |-> IF Truthy(f["dosage"]) THEN f["dosage"] ELSE NA,
       FREQ   |-> dict_get(f["freq"], NA),
       TOM    |-> dict_get(f["time"], NA)]

\* Lines 264-340: the template context, for a record context_raises is
\* false of.
build_context(edited, dates) ==
  LET combined_history ==
        dict_fromkeys(edited.lists["Riskfactors"].items
                        \o edited.lists["PastHistory"].items)
      cc == edited.scalars["ChiefComplaints"]
      base ==
        [k \in BaseContextKeys |->
           CASE k = "umr" -> edited.scalars["umr"]
             [] k = "name" -> str_title(edited.scalars["name"])
             [] k = "age" -> edited.scalars["age/gender"]
             [] k = "ad1" -> str_title(edited.scalars["ad1"])
             [] k = "ad2" -> str_title(edited.scalars["ad2"])
             [] k = "mob" -> edited.scalars["mob"]
             [] k = "admision" -> edited.scalars["admision_number"]
             [] k = "ward" -> str_upper(edited.scalars["ward"])
             [] k = "admit" -> dates.admit
             [] k = "discharge" -> dates.discharge
             [] k = "Diagnosis" -> str_join(edited.lists["Diagnosis"].items)
             [] k = "ChiefComplaints" ->
                  str_upper(IF Truthy(cc) THEN cc ELSE <<>>)
             [] k = "Riskfactors" -> str_join(combined_history)
             [] k = "Course" -> str_join(edited.lists["Course"].items)
             [] k \in VitalKeys -> edited.Vitals.map[k]
             [] k \in ExamKeys -> edited.Examination.map[k]
             [] OTHER -> Clock]
  IN  [fields |-> [k \in BaseContextKeys \cup AliasKeys |->
                     IF k \in AliasKeys THEN base[alias_of(k)] ELSE base[k]],
       meds   |-> [i \in 1..10 |->
                     medication_placeholders(edited.Medications.items, i)]]

\* Line 344: the name of the document sent.
output_filename(context) ==
  <<"D", "i", "s", "c", "h", "a", "r", "g", "e", "_">>
    \o [i \in 1..Len(context.fields["name"]) |->
          IF context.fields["name"][i] = " " THEN "_"
          ELSE context.fields["name"][i]]
    \o <<"_">> \o Clock \o <<".", "d", "o", "c", "x">>

(***************************************************************************)
(* The inputs: strings, records the model call may return, forms           *)
(***************************************************************************)
s_john_smith == <<"j", "o", "h", "n", " ", "s", "m", "i", "t", "h">>

s_age == <<"4", "5", "/", "M">>

s_ad1 == <<"1", "2", " ", "m", "a", "i", "n", " ", "s", "t">>

s_ad2 == <<"p", "u", "n", "e">>

s_mob == <<"9", "8">>

s_adm_no == <<"A", "1">>

s_umr == <<"U", "1">>

s_ward == <<"i", "c", "u">>

s_date_admit == <<"2", "0", "2", "4", "-", "0", "1", "-", "0", "5">>

s_date_discharge == <<"2", "0", "2", "4", "-", "0", "1", "-", "1", "0">>

s_date_feb30 == <<"2", "0", "2", "4", "-", "0", "2", "-", "3", "0">>

s_not_a_date == <<"n", "o", "t", "-", "a", "-", "d", "a", "t", "e">>

s_fever == <<"F", "e", "v", "e", "r">>

s_htn == <<"H", "T", "N">>

s_dm == <<"D", "M">>

s_stable == <<"s", "t", "a", "b", "l", "e">>

s_zz == <<"z", "z">>

s_blank == <<" ", " ">>

s_advice_mixed ==
  <<"A", "d", "v", "i", "c", "e", ":", " ", "M", "e", "d", "i", "c", "a",
    "l", " ", "M", "a", "n", "a", "g", "e", "m", "e", "n", "t">>

s_advice_inside ==
  <<"s", "e", "e", " ", "a", "d", "v", "i", "c", "e", ":", " ", "m", "e",
    "d", "i", "c", "a", "l", " ", "m", "a", "n", "a", "g", "e", "m", "e",
    "n", "t">>

s_tab == <<"T", "a", "b">>

s_dolo == <<"d", "o", "l", "o">>

s_650mg == <<"6", "5", "0", "M", "G">>

s_bd == <<"B", "D">>

s_8pm == <<"8", "P", "M">>

s_500mg == <<"5", "0", "0", "M", "G">>

s_tab_padded == <<" ", "t", "a", "b", " ">>

s_cap == <<"c", "a", "p">>

s_amox == <<"a", "m", "o", "x", " ">>

s_od == <<"o", "d">>

s_night == <<"n", "i", "g", "h", "t">>

t_fever_advice ==
  <<"F", "e", "v", "e", "r", "\n", "A", "D", "V", "I", "C", "E", ":", " ",
    "M", "E", "D", "I", "C", "A", "L", " ", "M", "A", "N", "A", "G", "E",
    "M", "E", "N", "T">>

t_mixed_and_upper ==
  <<"A", "d", "v", "i", "c", "e", ":", " ", "M", "e", "d", "i", "c", "a",
    "l", " ", "M", "a", "n", "a", "g", "e", "m", "e", "n", "t", "\n", "A",
    "D", "V", "I", "C", "E", ":", " ", "M", "E", "D", "I", "C", "A", "L",
    " ", "M", "A", "N", "A", "G", "E", "M", "E", "N", "T">>

t_twice ==
  <<"A", "D", "V", "I", "C", "E", ":", " ", "M", "E", "D", "I", "C", "A",
    "L", " ", "M", "A", "N", "A", "G", "E", "M", "E", "N", "T", "\n", "F",
    "e", "v", "e", "r", "\n", "A", "D", "V", "I", "C", "E", ":", " ", "M",
    "E", "D", "I", "C", "A", "L", " ", "M", "A", "N", "A", "G", "E", "M",
    "E", "N", "T">>

t_padded ==
  <<" ", "F", "e", "v", "e", "r", " ", "\n", "\n", " ", " ", "\n", "F",
    "e", "v", "e", "r">>

t_inside ==
  <<"s", "e", "e", " ", "a", "d", "v", "i", "c", "e", ":", " ", "m", "e",
    "d", "i", "c", "a", "l", " ", "m", "a", "n", "a", "g", "e", "m", "e",
    "n", "t", "\n", "F", "e", "v", "e", "r">>

t_htn_dm == <<"D", "M", "\n", "H", "T", "N">>

f_report_pdf == <<"r", "e", "p", "o", "r", "t", ".", "p", "d", "f">>

f_report_upper == <<"s", "c", "a", "n", ".", "P", "D", "F">>

f_notes_txt == <<"n", "o", "t", "e", "s", ".", "t", "x", "t">>

f_nodot == <<"p", "d", "f">>

\* A list-field value.
json_list(items) == [kind |-> "list", items |-> items]

json_str(v) == [kind |-> "str", items |-> <<v>>]

json_none == [kind |-> "none", items |-> <<>>]

json_absent == [kind |-> "absent", items |-> <<>>]

med_dolo ==
  [isdict |-> TRUE,
   f |-> [form |-> s_tab, name |-> s_dolo, dosage |-> s_650mg,
          freq |-> s_bd, time |-> s_8pm]]

\* A medication entry with a null name and no dosage key.
med_partial ==
  [isdict |-> TRUE,
   f |-> [form |-> s_cap, name |-> None, dosage |-> Absent,
          freq |-> <<>>, time |-> s_night]]

\* A medication entry that is a string, not an object.
med_not_dict == [isdict |-> FALSE, f |-> [k \in MedKeys |-> Absent]]

\* A complete record, as the prompt asks the model for.
BaseRecord ==
  [scalars |->
     [k \in ScalarKeys |->
        CASE k = "umr" -> s_umr
          [] k = "name" -> s_john_smith
          [] k = "age/gender" -> s_age
          [] k = "ad1" -> s_ad1
          [] k = "ad2" -> s_ad2
          [] k = "mob" -> s_mob
          [] k = "admision_number" -> s_adm_no
          [] k = "ward" -> s_ward
          [] k = "admission_date" -> s_date_admit
          [] k = "discharge_date" -> s_date_discharge
          [] OTHER -> s_fever],
   lists |->
     [k \in ListKeys |->
        CASE k = "Diagnosis" -> json_list(<<s_fever>>)
          [] k = "Riskfactors" -> json_list(<<s_htn>>)
          [] k = "PastHistory" -> json_list(<<s_htn, s_dm>>)
          [] OTHER -> json_list(<<s_stable>>)],
   Vitals      |-> [kind |-> "dict", map |-> [k \in VitalKeys |-> s_mob]],
   Examination |-> [kind |-> "dict", map |-> [k \in ExamKeys |-> s_stable]],
   Medications |-> json_list(<<med_dolo>>)]

ScalarInputs == {Absent, None, <<>>}

DateInputs == {s_date_admit, s_date_discharge, s_date_feb30, s_not_a_date}

DiagnosisInputs ==
  {json_absent, json_none, json_str(s_fever), json_list(<<>>),
   json_list(<<s_fever, ADVICE>>),
   json_list(<<s_advice_mixed, s_fever, ADVICE>>),
   json_list(<<s_fever, s_fever>>),
   json_list(<<s_fever, None>>)}

NestedInputs(keys) ==
  {[kind |-> "absent", map |-> [k \in keys |-> Absent]],
   [kind |-> "none", map |-> [k \in keys |-> Absent]],
   [kind |-> "str", map |-> [k \in keys |-> Absent]]}
    \cup {[kind |-> "dict",
           map |-> [k \in keys |-> IF k = k0 THEN v ELSE s_mob]] :
            k0 \in keys, v \in ScalarInputs}

\* "str": Medications is the string "N/A".
MedicationsInputs ==
  {json_absent, json_none, [kind |-> "str", items |-> <<>>], json_list(<<>>),
   json_list(<<med_dolo, med_partial>>), json_list(<<med_not_dict>>)}

\* The part of the inputs a run varies, the rest kept as in BaseRecord and
\* EmptyForm: the fields are merged one by one, so the parts do not interact.
InputFamilies ==
  {"client", "identity", "dates", "lists", "nested", "medications"}

\* The JSON objects the model call may return, by the part varied.
IdentityRecords ==
  {[BaseRecord EXCEPT !.scalars[k] = v] : k \in ScalarKeys, v \in ScalarInputs}

DatesRecords ==
  {[BaseRecord EXCEPT !.scalars["admission_date"] = a,
                      !.scalars["discharge_date"] = d] :
     a \in DateInputs, d \in DateInputs}

ListsRecords ==
  {[BaseRecord EXCEPT !.lists["Diagnosis"] = v] : v \in DiagnosisInputs}
    \cup {[BaseRecord EXCEPT !.lists["Course"] = json_list(<<None>>)],
          [BaseRecord EXCEPT !.lists["Riskfactors"] = json_str(s_dm)]}

NestedRecords ==
  {[BaseRecord EXCEPT !.Vitals = v] : v \in NestedInputs(VitalKeys)}
    \cup {[BaseRecord EXCEPT !.Examination = v] : v \in NestedInputs(ExamKeys)}

MedicationsRecords ==
  {[BaseRecord EXCEPT !.Medications = v] : v \in MedicationsInputs}

ClientRecords == {[BaseRecord EXCEPT !.scalars["name"] = s_zz]}

\* The JSON objects the model call may return in a run of the family.
RecordsOf(fam) ==
  {EmptyRecord, BaseRecord} \cup
  CASE fam = "identity" -> IdentityRecords
    [] fam = "dates" -> DatesRecords
    [] fam = "lists" -> ListsRecords
    [] fam = "nested" -> NestedRecords
    [] fam = "medications" -> MedicationsRecords
    [] OTHER -> ClientRecords

DiagnosisTexts ==
  {<<>>, s_fever, t_fever_advice, t_mixed_and_upper, t_twice, t_padded,
   t_inside}

\* Scenario D: form and name empty, a dosage.
SlotScenarioD ==
  [form |-> <<>>, name |-> <<>>, dosage |-> s_500mg, freq |-> Absent,
   time |-> Absent]

\* All five values filled.
SlotAllFive ==
  [form |-> s_cap, name |-> s_amox, dosage |-> s_500mg, freq |-> s_od,
   time |-> s_night]

\* The values one medication slot may carry.
SlotInputs ==
  {SlotScenarioD,
   \* only a form, in lower case and padded
   [form |-> s_tab_padded, name |-> Absent, dosage |-> Absent,
    freq |-> Absent, time |-> Absent],
   \* whitespace only
   [form |-> Absent, name |-> s_blank, dosage |-> <<>>, freq |-> s_blank,
    time |-> Absent],
   SlotAllFive,
   \* present and empty
   [k \in MedKeys |-> <<>>]}

\* The review forms, by the part filled.
IdentityForms ==
  {[EmptyForm EXCEPT !.fields[k] = s_zz] : k \in IdentityKeys}
    \cup {[EmptyForm EXCEPT !.fields["ChiefComplaints"] = v] : v \in {<<>>, s_zz}}

DatesForms == {[EmptyForm EXCEPT !.fields["admission_date"] = s_date_discharge]}

ListsForms ==
  {[EmptyForm EXCEPT !.fields["Diagnosis"] = t] : t \in DiagnosisTexts}
    \cup {[EmptyForm EXCEPT !.fields["Riskfactors"] = t_htn_dm,
                            !.fields["PastHistory"] = t_htn_dm]}

NestedForms ==
  {[EmptyForm EXCEPT !.fields[k] = v] :
     k \in VitalKeys \cup ExamKeys, v \in {<<>>, s_zz}}

MedicationsForms ==
  {[EmptyForm EXCEPT !.slots[i] = v] : i \in MedSlots, v \in SlotInputs}
    \cup {[EmptyForm EXCEPT !.slots = [i \in MedSlots |-> v]] :
            v \in {SlotScenarioD, SlotAllFive}}
    \cup {[EmptyForm EXCEPT !.slots[1] = v, !.slots[3] = SlotScenarioD] :
            v \in SlotInputs}

\* The review forms submitted in a run of the family.
FormsOf(fam) ==
  {EmptyForm} \cup
  CASE fam = "identity" -> IdentityForms
    [] fam = "dates" -> DatesForms
    [] fam = "lists" -> ListsForms
    [] fam = "nested" -> NestedForms
    [] fam = "medications" -> MedicationsForms
    [] OTHER -> {}

\* The uploaded file names.
FilenameInputs == {<<>>, f_report_pdf, f_report_upper, f_notes_txt, f_nodot}

\* What makes an attempt of the model call fail: the request (transport
\* error, timeout, bad status) or the response (its envelope, no JSON object
\* in its text, JSON that does not parse).
ErrorKinds == {"request", "response"}

(***************************************************************************)
(* The state                                                               *)
(***************************************************************************)
VARIABLES
  family,    \* the input family of the run
  apiKey,    \* GEMINI_API_KEY is set in the environment
  session,   \* session['json_data']: [has, json_data]
  pc,        \* where the running handler or call stands; "idle" between two
  client,    \* get_json_from_pdf_via_gemini: arguments, loop state, outcome
  form,      \* review: request.form of the POST being handled
  orig,      \* review: the stored record as it was when the POST arrived
  edited,    \* review: the merged record
  dates,     \* review: admission_date and discharge_date, the locals
  context,   \* review: the template context
  response,  \* what the handler answered: [kind, flash, detail]
  posts      \* review submissions handled so far

vars == <<family, apiKey, session, pc, client, form, orig, edited, dates, context,
          response, posts>>

\* The review submissions a run handles.
MaxReviewPosts == 2

\* The largest max_retries a direct caller passes.
MaxRetriesArg == 4

\* The max_retries a caller other than home passes in a run of the family.
RetriesOf(fam) == IF fam = "client" THEN 0..MaxRetriesArg ELSE {}

\* max_retries=3 and retry_delay=2 of get_json_from_pdf_via_gemini.
DefaultMaxRetries == 3

RetryDelay == 2

NoDates == [admit |-> <<>>, discharge |-> <<>>]

NoContext ==
  [fields |-> [k \in BaseContextKeys \cup AliasKeys |-> <<>>],
   meds   |-> [i \in 1..10 |->
                 [TAB |-> <<>>, DOSAGE |-> <<>>, FREQ |-> <<>>, TOM |-> <<>>]]]

NoResponse == [kind |-> "none", flash |-> "none", detail |-> "none"]

NoClient ==
  [caller |-> "none", pdf_ok |-> TRUE, max_retries |-> 0, attempt |-> 0,
   made |-> 0, delays |-> 0, slept |-> 0, history |-> <<>>,
   outcome |-> "none", value |-> [kind |-> "none", rec |-> EmptyRecord],
   error |-> [kind |-> "none", attempt |-> 0]]

Init ==
  /\ family \in InputFamilies
  /\ apiKey \in BOOLEAN
  /\ session = [has |-> FALSE, json_data |-> EmptyRecord]
  /\ pc = "idle"
  /\ client = NoClient
  /\ form = EmptyForm
  /\ orig = EmptyRecord
  /\ edited = EmptyRecord
  /\ dates = NoDates
  /\ context = NoContext
  /\ response = NoResponse
  /\ posts = 0

review_locals == <<form, orig, edited, dates, context>>

(***************************************************************************)
(* get_json_from_pdf_via_gemini(pdf_path, max_retries, retry_delay)        *)
(***************************************************************************)
\* The call: the arguments bound, nothing run yet.
client_call(caller, pdf_ok, max_retries) ==
  [NoClient EXCEPT !.caller = caller, !.pdf_ok = pdf_ok,
                   !.max_retries = max_retries]

\* Line 115: attempt < max_retries - 1, the attempt counted from 0.
may_retry(attempt, max_retries) == attempt < max_retries - 1

\* Line 112: the attempt parsed a JSON object: return it.
after_success(c, rec) ==
  [c EXCEPT !.made = @ + 1,
            !.history = Append(@, [ok |-> TRUE, err |-> "none", rec |-> rec]),
            !.outcome = "returned",
            !.value = [kind |-> "record", rec |-> rec]]

\* A retry that does not wait.
after_failure_no_sleep(c, err) ==
  LET h == Append(c.history, [ok |-> FALSE, err |-> err, rec |-> EmptyRecord])
  IN  IF may_retry(c.attempt, c.max_retries)
      THEN [c EXCEPT !.made = @ + 1, !.history = h, !.attempt = @ + 1]
      ELSE [c EXCEPT !.made = @ + 1, !.history = h, !.outcome = "raised",
                     !.error = [kind |-> err, attempt |-> c.attempt + 1]]

\* Lines 114-118: the attempt raised: sleep and go on, or raise again.
after_failure(c, err) ==
  LET h == Append(c.history, [ok |-> FALSE, err |-> err, rec |-> EmptyRecord])
  IN  IF may_retry(c.attempt, c.max_retries)
      THEN [c EXCEPT !.made = @ + 1, !.history = h, !.attempt = @ + 1,
                     !.delays = @ + 1, !.slept = @ + RetryDelay]
      ELSE [c EXCEPT !.made = @ + 1, !.history = h, !.outcome = "raised",
                     !.error = [kind |-> err, attempt |-> c.attempt + 1]]

\* Lines 36 and 94-95: the PDF text is extracted (pdfplumber raises on an
\* unreadable file), then the API key is required.
ClientStart ==
  /\ pc = "client_start"
  /\ IF ~client.pdf_ok
     THEN /\ client' = [client EXCEPT !.outcome = "raised",
                                      !.error = [kind |-> "pdf", attempt |-> 0]]
          /\ pc' = "client_done"
     ELSE IF ~apiKey
     THEN /\ client' = [client EXCEPT !.outcome = "raised",
                                      !.error = [kind |-> "config", attempt |-> 0]]
          /\ pc' = "client_done"
     ELSE /\ client' = client
          /\ pc' = "client_loop"
  /\ UNCHANGED <<family, apiKey, session, review_locals, response, posts>>

\* Lines 101-112: an attempt that returns the parsed object.
ClientAttemptSucceeds ==
  /\ pc = "client_loop"
  /\ client.attempt < client.max_retries
  /\ \E rec \in RecordsOf(family) : client' = after_success(client, rec)
  /\ pc' = "client_done"
  /\ UNCHANGED <<family, apiKey, session, review_locals, response, posts>>

\* Lines 101-118: an attempt that raises.
ClientAttemptFails ==
  /\ pc = "client_loop"
  /\ client.attempt < client.max_retries
  /\ \E err \in ErrorKinds : client' = after_failure(client, err)
  /\ pc' = IF client'.outcome = "raised" THEN "client_done" ELSE "client_loop"
  /\ UNCHANGED <<family, apiKey, session, review_locals, response, posts>>

\* Line 101 with an empty range: the loop body never runs and the function
\* ends without a return statement, returning None.
ClientFallsThrough ==
  /\ pc = "client_loop"
  /\ ~(client.attempt < client.max_retries)
  /\ client' = [client EXCEPT !.outcome = "returned"]
  /\ pc' = "client_done"
  /\ UNCHANGED <<family, apiKey, session, review_locals, response, posts>>

\* A caller other than home calls the function with its own max_retries.
DirectCall ==
  /\ pc = "idle"
  /\ \E pdf_ok \in BOOLEAN, max_retries \in RetriesOf(family) :
        client' = client_call("direct", pdf_ok, max_retries)
  /\ pc' = "client_start"
  /\ UNCHANGED <<family, apiKey, session, review_locals, response, posts>>

DirectReturn ==
  /\ pc = "client_done"
  /\ client.caller = "direct"
  /\ client' = NoClient
  /\ pc' = "idle"
  /\ UNCHANGED <<family, apiKey, session, review_locals, response, posts>>

(***************************************************************************)
(* home                                                                    *)
(***************************************************************************)
respond(kind, flash, detail) == [kind |-> kind, flash |-> flash, detail |-> detail]

\* Line 166: GET renders the upload page.
HomeGet ==
  /\ pc = "idle"
  /\ response' = respond("render_index", "none", "none")
  /\ pc' = "responded"
  /\ UNCHANGED <<family, apiKey, session, client, review_locals, posts>>

\* Lines 142-144: POST without a file part.
HomePostNoFile ==
  /\ pc = "idle"
  /\ response' = respond("redirect_home", "danger", "No file part")
  /\ pc' = "responded"
  /\ UNCHANGED <<family, apiKey, session, client, review_locals, posts>>

\* Lines 146-149: POST with an empty or non-PDF file name.
HomePostInvalidFile ==
  /\ pc = "idle"
  /\ \E filename \in FilenameInputs :
        filename = <<>> \/ ~allowed_file(filename)
  /\ response' = respond("redirect_home", "danger", "Invalid file")
  /\ pc' = "responded"
  /\ UNCHANGED <<family, apiKey, session, client, review_locals, posts>>

\* Lines 151-157: the file is saved and the model call starts, with the
\* default max_retries.
HomePostUpload ==
  /\ pc = "idle"
  /\ \E filename \in FilenameInputs, pdf_ok \in BOOLEAN :
        /\ ~(filename = <<>> \/ ~allowed_file(filename))
        /\ client' = client_call("home", pdf_ok, DefaultMaxRetries)
  /\ pc' = "client_start"
  /\ UNCHANGED <<family, apiKey, session, review_locals, response, posts>>

\* Lines 158-160: the record is stored in the session.
HomeStore ==
  /\ pc = "client_done"
  /\ client.caller = "home"
  /\ client.outcome = "returned"
  /\ session' = [has |-> client.value.kind = "record",
                 json_data |-> client.value.rec]
  /\ response' = respond("redirect_review", "info", "PDF processed")
  /\ client' = NoClient
  /\ pc' = "responded"
  /\ UNCHANGED <<family, apiKey, review_locals, posts>>

\* Lines 162-164: whatever the try block raised is flashed.
HomeExcept ==
  /\ pc = "client_done"
  /\ client.caller = "home"
  /\ client.outcome = "raised"
  /\ response' = respond("redirect_home", "danger", client.error.kind)
  /\ client' = NoClient
  /\ pc' = "responded"
  /\ UNCHANGED <<family, apiKey, session, review_locals, posts>>

(***************************************************************************)
(* review                                                                  *)
(***************************************************************************)
\* if not data: no record, None, or the empty object.
no_data == ~session.has \/ session.json_data = EmptyRecord

\* session.get('json_data') or {}
stored_or_empty == IF no_data THEN EmptyRecord ELSE session.json_data

\* Lines 173-177
ReviewGetNoData ==
  /\ pc = "idle"
  /\ no_data
  /\ response' = respond("redirect_home", "warning", "No data to review")
  /\ pc' = "responded"
  /\ UNCHANGED <<family, apiKey, session, client, review_locals, posts>>

\* Line 178
ReviewGetForm ==
  /\ pc = "idle"
  /\ ~no_data
  /\ response' = respond("render_edit", "none", "none")
  /\ pc' = "responded"
  /\ UNCHANGED <<family, apiKey, session, client, review_locals, posts>>

\* Lines 180-213, raising: nothing catches the exception, the request ends
\* as an internal server error.
ReviewPostRaises ==
  /\ pc = "idle"
  /\ posts < MaxReviewPosts
  /\ merge_raises(stored_or_empty)
  /\ posts' = posts + 1
  /\ response' = respond("unhandled", "none", "exception in review")
  /\ pc' = "responded"
  /\ UNCHANGED <<family, apiKey, session, client, review_locals>>

\* Lines 180-246: edited is built; the rows are appended to the stored list.
ReviewPostMerge ==
  /\ pc = "idle"
  /\ posts < MaxReviewPosts
  /\ ~merge_raises(stored_or_empty)
  /\ posts' = posts + 1
  /\ orig' = stored_or_empty
  /\ \E f \in FormsOf(family) :
        /\ form' = f
        /\ edited' = review_merge(stored_or_empty, f)
        /\ session' =
             IF no_data THEN session
             ELSE [session EXCEPT
                     !.json_data = stored_after_merge(session.json_data, f)]
  /\ pc' = "review_validate"
  /\ UNCHANGED <<family, apiKey, client, dates, context, response>>

\* Line 250, passing
ReviewValidateOk ==
  /\ pc = "review_validate"
  /\ validate_json_data(edited) = 0
  /\ pc' = "review_dates"
  /\ UNCHANGED <<family, apiKey, session, client, review_locals, response, posts>>

\* Lines 250 and 358-360: ValueError naming the first missing field.
ReviewValidateFails ==
  /\ pc = "review_validate"
  /\ validate_json_data(edited) # 0
  /\ response' = respond("redirect_review", "danger",
                         required_fields[validate_json_data(edited)])
  /\ pc' = "responded"
  /\ UNCHANGED <<family, apiKey, session, client, review_locals, posts>>

\* Lines 253-261
ReviewDates ==
  /\ pc = "review_dates"
  /\ dates' = format_dates(edited)
  /\ pc' = "review_context"
  /\ UNCHANGED <<family, apiKey, session, client, form, orig, edited, context,
                 response, posts>>

\* Lines 264-340
ReviewContext ==
  /\ pc = "review_context"
  /\ ~context_raises(edited)
  /\ context' = build_context(edited, dates)
  /\ pc' = "review_render"
  /\ UNCHANGED <<family, apiKey, session, client, form, orig, edited, dates,
                 response, posts>>

\* Lines 264-340 raising, and 358-360
ReviewContextRaises ==
  /\ pc = "review_context"
  /\ context_raises(edited)
  /\ response' = respond("redirect_review", "danger", "AttributeError")
  /\ pc' = "responded"
  /\ UNCHANGED <<family, apiKey, session, client, review_locals, posts>>

\* Lines 343-356: the document is rendered and sent.
ReviewRender ==
  /\ pc = "review_render"
  /\ response' = respond("send_file", "success", "document")
  /\ pc' = "responded"
  /\ UNCHANGED <<family, apiKey, session, client, review_locals, posts>>

\* Lines 273, 343-347 raising (no template, a rendering error), 358-360
ReviewRenderRaises ==
  /\ pc = "review_render"
  /\ response' = respond("redirect_review", "danger", "render")
  /\ pc' = "responded"
  /\ UNCHANGED <<family, apiKey, session, client, review_locals, posts>>

\* The response is sent; the handler's locals are gone.
Finish ==
  /\ pc = "responded"
  /\ pc' = "idle"
  /\ form' = EmptyForm
  /\ orig' = EmptyRecord
  /\ edited' = EmptyRecord
  /\ dates' = NoDates
  /\ context' = NoContext
  /\ response' = NoResponse
  /\ UNCHANGED <<family, apiKey, session, client, posts>>

Next ==
  \/ HomeGet
  \/ HomePostNoFile
  \/ HomePostInvalidFile
  \/ HomePostUpload
  \/ ClientStart
  \/ ClientAttemptSucceeds
  \/ ClientAttemptFails
  \/ ClientFallsThrough
  \/ DirectCall
  \/ DirectReturn
  \/ HomeStore
  \/ HomeExcept
  \/ ReviewGetNoData
  \/ ReviewGetForm
  \/ ReviewPostRaises
  \/ ReviewPostMerge
  \/ ReviewValidateOk
  \/ ReviewValidateFails
  \/ ReviewDates
  \/ ReviewContext
  \/ ReviewContextRaises
  \/ ReviewRender
  \/ ReviewRenderRaises
  \/ Finish

Spec == Init /\ [][Next]_vars

(***************************************************************************)
(* The claims                                                              *)
(***************************************************************************)
\* The merge is done: edited, form and orig are those of the POST handled.
Merged ==
  pc \in {"review_validate", "review_dates", "review_context", "review_render"}

\* The list the stored record held when the POST arrived, [] when the stored
\* value was no list.
OrigMedications ==
  IF orig.Medications.kind = "list" THEN orig.Medications.items ELSE <<>>

\* C1, as stated: whenever a stored record is merged with a form, each
\* identity field of the merged record equals the stored record's value of it.
C1_IdentityEqualsStored ==
  (Merged /\ orig # EmptyRecord) =>
    \A k \in IdentityKeys : edited.scalars[k] = orig.scalars[k]

\* C1, amended: each identity field of the merged record equals the stored
\* record's value where the stored record has the key, and "N/A" where it
\* has not, whatever the form carries under the key.
C1_IdentityFromStored ==
  Merged =>
    \A k \in IdentityKeys :
      edited.scalars[k] =
        IF orig.scalars[k] = Absent THEN NA ELSE orig.scalars[k]

\* C1, witness: the form carries another value under an identity key the
\* stored record has, and the merged record keeps the stored one.
C1_Witness ==
  /\ Merged
  /\ \E k \in IdentityKeys :
       /\ form.fields[k] # Absent
       /\ orig.scalars[k] # Absent
       /\ form.fields[k] # orig.scalars[k]
       /\ edited.scalars[k] = orig.scalars[k]

\* The entries of a Diagnosis list that contain the advisory, case ignored.
AdviceEntries(items) ==
  {i \in 1..Len(items) : str_contains(ADVICE, str_upper(items[i]))}

\* The lines the merge reads the Diagnosis from: the form's text, or the
\* stored list when the form has none.
DiagnosisLines ==
  parse_multiline(
    form_get(form, "Diagnosis", format_multiline_field(orig.lists["Diagnosis"]).v))

\* C2, as stated: the merged Diagnosis holds exactly one entry that matches
\* the advisory case-insensitively.
C2_ExactlyOneAdvice ==
  (Merged /\ orig # EmptyRecord) => Cardinality(AdviceEntries(edited.lists["Diagnosis"].items)) = 1

\* C2, amended: the merged Diagnosis holds no entry twice and at least one
\* entry that contains the advisory case-insensitively; it holds exactly one
\* when the lines merged hold at most one distinct such line, and the
\* appended literal is the last entry when they hold none.
C2_AtLeastOneAdvice ==
  Merged =>
    LET d == edited.lists["Diagnosis"].items
        n == Cardinality({DiagnosisLines[i] : i \in AdviceEntries(DiagnosisLines)})
    IN  /\ Cardinality(AdviceEntries(d)) >= 1
        /\ \A i, j \in 1..Len(d) : d[i] = d[j] => i = j
        /\ n <= 1 => Cardinality(AdviceEntries(d)) = 1
        /\ n = 0 => d[Len(d)] = ADVICE
        /\ n >= 1 => Cardinality(AdviceEntries(d)) = n

\* C2, witness: the form holds the advisory twice, and one entry is left.
C2_Witness ==
  /\ Merged
  /\ form.fields["Diagnosis"] = t_twice
  /\ Cardinality(AdviceEntries(DiagnosisLines)) = 2
  /\ Cardinality(AdviceEntries(edited.lists["Diagnosis"].items)) = 1

\* C3: once an attempt of a call with max_retries >= 1 has succeeded, the
\* first successful attempt k is the last attempt made, the call has
\* returned the record parsed in attempt k, and exactly k-1 delays of
\* retry_delay seconds have elapsed.
C3_FirstSuccessReturned ==
  LET h  == client.history
      ok == {i \in 1..Len(h) : h[i].ok}
  IN  (client.max_retries >= 1 /\ ok # {}) =>
        LET k == SetMin(ok)
        IN  /\ k <= client.max_retries
            /\ pc = "client_done"
            /\ client.outcome = "returned"
            /\ client.value = [kind |-> "record", rec |-> h[k].rec]
            /\ Len(h) = k
            /\ client.made = k
            /\ client.delays = k - 1
            /\ client.slept = RetryDelay * (k - 1)

\* C3, witness: Scenario C, two failures then a success under max_retries=3,
\* the third attempt's record returned after two delays.
C3_Witness ==
  /\ client.max_retries = 3
  /\ Len(client.history) = 3
  /\ ~client.history[1].ok
  /\ ~client.history[2].ok
  /\ client.history[3].ok
  /\ client.outcome = "returned"
  /\ client.value.rec = client.history[3].rec
  /\ client.delays = 2

\* C4, as stated: a call that got as far as its loop ends either returning a
\* parsed object, or raising the last attempt's error after exactly
\* max_retries failed attempts and max_retries - 1 delays.
C4_ObjectOrError ==
  (pc = "client_done" /\ client.pdf_ok /\ apiKey) =>
    \/ /\ client.outcome = "returned"
       /\ client.value.kind = "record"
    \/ /\ client.outcome = "raised"
       /\ client.made = client.max_retries
       /\ \A i \in 1..Len(client.history) : ~client.history[i].ok
       /\ client.delays = client.max_retries - 1
       /\ client.error = [kind |-> client.history[client.made].err,
                          attempt |-> client.max_retries]

\* C5, as stated: the merged Medications is a list of at most 10 entries.
C5_AtMostTen ==
  Merged =>
    /\ edited.Medications.kind = "list"
    /\ Len(edited.Medications.items) <= 10

\* C5, amended: the merged Medications is a list that holds at most ten
\* entries more than the stored list held when the POST arrived (at most ten
\* when the stored value was no list).
C5_AtMostTenMore ==
  Merged =>
    /\ edited.Medications.kind = "list"
    /\ Len(edited.Medications.items) <= Len(OrigMedications) + 10

\* C5, witness: ten rows appended to a stored list that is not empty.
C5_Witness ==
  /\ Merged
  /\ Len(OrigMedications) >= 1
  /\ Len(edited.Medications.items) = Len(OrigMedications) + 10

\* A slot value of the form, trimmed; a key the form lacks reads as "".
TrimmedSlot(slot, k) == str_strip(IF slot[k] = Absent THEN <<>> ELSE slot[k])

\* The slots of the form with a value that is not empty after trimming.
FilledSlots == {i \in 1..10 : \E k \in MedKeys : TrimmedSlot(form.slots[i], k) # <<>>}

\* The row the claim describes for a slot.
ClaimedRow(slot) ==
  [isdict |-> TRUE,
   f |-> [k \in MedKeys |->
            IF k = "form" THEN str_upper(TrimmedSlot(slot, k))
            ELSE IF k = "name" THEN TrimmedSlot(slot, k)
            ELSE IF TrimmedSlot(slot, k) = <<>> THEN NA
            ELSE TrimmedSlot(slot, k)]]

\* The n-th smallest element of a set of numbers.
NthOf(S, n) == CHOOSE i \in S : Cardinality({j \in S : j < i}) = n - 1

\* C6: the merged Medications is the stored list followed by one row for
\* each slot of 1..10 that has a value not empty after trimming, in slot
\* order and for no other slot; a row has the form upper-cased, form and name
\* "" when blank, and dosage, freq and time "N/A" when blank.
C6_RowPerFilledSlot ==
  Merged =>
    LET m == edited.Medications.items
        b == Len(OrigMedications)
    IN  /\ Len(m) = b + Cardinality(FilledSlots)
        /\ SubSeq(m, 1, b) = OrigMedications
        /\ \A n \in 1..Cardinality(FilledSlots) :
             m[b + n] = ClaimedRow(form.slots[NthOf(FilledSlots, n)])

\* C6, witness: Scenario D, slot 3 with form "" and name "" and a dosage:
\* its row is appended with form "" and name "".
C6_Witness ==
  /\ Merged
  /\ form.slots[3] = SlotScenarioD
  /\ FilledSlots = {3}
  /\ LET row == edited.Medications.items[Len(edited.Medications.items)].f
     IN  row = [form |-> <<>>, name |-> <<>>, dosage |-> s_500mg,
                freq |-> NA, time |-> NA]

\* The value the claim has written to the context for a stored date.
ClaimedDate(v) == IF strptime(v).ok THEN strftime(strptime(v)) ELSE v

\* C7, as stated: each date of the context is the DD-Mon-YYYY form of the
\* merged record's date when that date parses, and the date unchanged when
\* it does not, whatever the other date is.
C7_EachDateFormatted ==
  pc = "review_render" =>
    /\ context.fields["admit"] = ClaimedDate(edited.scalars["admission_date"])
    /\ context.fields["discharge"] = ClaimedDate(edited.scalars["discharge_date"])

\* C8, as stated: in a merged record that passed validation, no scalar field
\* is an empty string, null or absent.
C8_NoEmptyScalar ==
  (pc \in {"review_dates", "review_context", "review_render"} /\ orig # EmptyRecord) =>
    /\ \A k \in ScalarKeys : Truthy(edited.scalars[k])
    /\ \A k \in VitalKeys : Truthy(edited.Vitals.map[k])
    /\ \A k \in ExamKeys : Truthy(edited.Examination.map[k])

\* C9, as stated: no handler run ends in an exception nothing caught.
C9_NoUnhandledException ==
  pc = "responded" => response.kind # "unhandled"

\* C10, as stated: after the merge the stored record's Medications is what
\* it was when the POST arrived.
C10_StoredMedicationsUnchanged ==
  Merged => stored_or_empty.Medications = orig.Medications

====
